---- MODULE Spec2Model ----
(***************************************************************************)
(* A model of chrome_screen.webdriver.ChromeScreenshot: the full-page      *)
(* screenshot wrapper around the Chrome webdriver.                         *)
(*                                                                         *)
(* The browser (the document's DOM, its size, the window's viewport) is    *)
(* the shared state; the program is one sequential caller whose position   *)
(* inside a public operation is pc.  One action is one driver round trip   *)
(* (execute_script, the native screenshot) together with the pure Python   *)
(* code that follows it up to the next round trip.                         *)
(***************************************************************************)
EXTENDS Integers, Sequences, FiniteSets, TLC

\* ------------------------------------------------------------------ bounds
\* Largest document width/height the browser reports.
MaxDoc == 3
\* Largest viewport width/height the browser reports.
MaxVp == 2
\* Largest number of override <style> elements tracked in the document.
MaxStyles == 2
\* Largest `max` argument given to prepare_page.
MaxScrolls == 2

\* Histories (rects yielded, driver events, composited tiles) stop growing
\* at these lengths, so that a tiling loop that never ends is a cycle.
RectCap == (MaxDoc + 1) * (MaxDoc + 1)
TraceCap == 2 * RectCap + 2

VARIABLES
    \* the browser
    styles,      \* number of <style id="chrome_screenshot_fix"> in document.body
    docW, docH,  \* what the document-size scripts return (max of 5 metrics)
    vpW, vpH,    \* what `window.innerWidth || document.body.clientWidth` returns
    \* the caller
    pc,          \* position inside the running operation, "idle" between calls
    op,          \* the running (or last) operation
    max,         \* prepare_page's argument
    count,       \* prepare_page's counter
    doc_width, doc_height,     \* __iter_rects / __screenshot_png locals
    top, bottom, left, right,  \* __iter_rects locals
    exhausted,   \* the rect generator ran to its end (StopIteration)
    rects,       \* the rects yielded so far by this call's generator
    trace,       \* the hide, scroll, capture and restore calls the driver served
    data,        \* the tile last returned by the native screenshot
    canvas,      \* the Image `screenshot` being composited
    funcCalled,  \* func(screenshot) was invoked
    blob,        \* what screenshot.make_blob(format='png') produced
    written,     \* what screenshot.save(filename=...) wrote
    ret,         \* _ret, the value of func(screenshot)
    raised       \* the exception that ended the call, "none" if it returned

browser == <<styles, docW, docH, vpW, vpH>>
tiler == <<doc_width, doc_height, top, bottom, left, right, exhausted, rects>>
output == <<canvas, funcCalled, blob, written, ret>>
vars == <<styles, docW, docH, vpW, vpH, pc, op, max, count, doc_width,
          doc_height, top, bottom, left, right, exhausted, rects, trace,
          data, canvas, funcCalled, blob, written, ret, raised>>

\* ------------------------------------------------------------------ values
CaptureOps == {"png", "base64", "file"}

NoValue == [kind |-> "none", bytes |-> <<>>]
Bytes(b) == [kind |-> "bytes", bytes |-> b]
TrueValue == [kind |-> "true", bytes |-> <<>>]

NoCanvas == [open |-> FALSE, w |-> 0, h |-> 0, tiles |-> <<>>]

Rect(l, t, r, b) == [left |-> l, top |-> t, right |-> r, bottom |-> b]

\* Append that stops at a cap (see RectCap).
Push(s, e, cap) == IF Len(s) < cap THEN Append(s, e) ELSE s

Min(a, b) == IF a < b THEN a ELSE b

\* ------------------------------------------------- base64 and the PNG blob
\* Bytes and characters are their ASCII codes.  Index of a character in the
\* base64 alphabet A-Z a-z 0-9 + /, and -1 for any other byte.
B64Index(c) ==
    CASE c \in 65..90 -> c - 65
      [] c \in 97..122 -> c - 71
      [] c \in 48..57 -> c + 4
      [] c = 43 -> 62
      [] c = 47 -> 63
      [] OTHER -> -1

B64Char(i) ==
    CASE i \in 0..25 -> i + 65
      [] i \in 26..51 -> i + 71
      [] i \in 52..61 -> i - 4
      [] i = 62 -> 43
      [] OTHER -> 47

\* base64.b64encode: three bytes to four characters, '=' (61) padding.
RECURSIVE B64Encode(_)
B64Encode(b) ==
    IF Len(b) = 0 THEN <<>>
    ELSE IF Len(b) = 1 THEN
        <<B64Char(b[1] \div 4), B64Char((b[1] % 4) * 16), 61, 61>>
    ELSE IF Len(b) = 2 THEN
        <<B64Char(b[1] \div 4), B64Char((b[1] % 4) * 16 + (b[2] \div 16)),
          B64Char((b[2] % 16) * 4), 61>>
    ELSE
        <<B64Char(b[1] \div 4), B64Char((b[1] % 4) * 16 + (b[2] \div 16)),
          B64Char((b[2] % 16) * 4 + (b[3] \div 64)), B64Char(b[3] % 64)>>
        \o B64Encode(SubSeq(b, 4, Len(b)))

\* base64.b64decode(s) without validation, for input holding no '=': bytes
\* outside the alphabet are skipped, the rest is read four characters at a
\* time, and a number of characters that is no multiple of four is an error
\* (binascii.Error, "Incorrect padding").
IsB64(c) == B64Index(c) >= 0
Sextets(s) ==
    LET a == SelectSeq(s, IsB64) IN [i \in 1..Len(a) |-> B64Index(a[i])]

RECURSIVE DecodeQuads(_)
DecodeQuads(q) ==
    IF Len(q) < 4 THEN <<>>
    ELSE LET n == q[1] * 262144 + q[2] * 4096 + q[3] * 64 + q[4]
         IN  <<n \div 65536, (n \div 256) % 256, n % 256>>
             \o DecodeQuads(SubSeq(q, 5, Len(q)))

B64DecodeOk(s) == Len(Sextets(s)) % 4 = 0
B64Decode(s) == DecodeQuads(Sextets(s))

\* screenshot.make_blob(format='png'): the encoder is the image library's.
\* It is modelled as an injective byte string of the canvas: the start of
\* the PNG signature (\x89 P N G), the canvas size, and two bytes for each
\* composited tile, in compositing order.
MakeBlob(c) ==
    <<137, 80, 78, 71, c.w, c.h>>
    \o [i \in 1..(2 * Len(c.tiles)) |->
           IF i % 2 = 1 THEN 48 + c.tiles[(i + 1) \div 2].x
                        ELSE 48 + c.tiles[i \div 2].y]

\* Decoding a blob gives an image of the size the blob records.
PngSize(b) == <<b[5], b[6]>>

\* ------------------------------------------------------- the rect generator
\* __iter_rects, line by line.  v is the viewport extent the driver returned
\* for that line's read of __viewport_height / __viewport_width.
Bottom(t, v) == t + v
\* ShiftedTop one pixel short of a full viewport.
ShiftedTopOffByOne(b, v) == b - v + 1
ShiftedTop(b, v) == b - v
RightOf(l, v) == l + v
ShiftedLeft(r, v) == r - v
NextLeft(l, v) == l + v
\* NextTop with the row step one pixel too long.
NextTopTooFar(t, v) == t + v + 1
NextTop(t, v) == t + v

\* ColTest with `<=` for `<`.
ColTestInclusive(l, dw) == IF l <= dw THEN "right" ELSE "row_step"

\* `while left < doc_width`: where the generator goes next.
ColTest(l, dw) == IF l < dw THEN "right" ELSE "row_step"

\* After `for ... in self.__iter_rects(...)` has ended: prepare_page returns,
\* __screenshot_png goes on to func(screenshot).
LoopEnd(o) == IF o = "prepare" THEN "idle" ELSE "func"

\* RowTest measuring the document again instead of using doc_height.
RowTestRemeasured(t, dh, o) == IF t < docH THEN "bottom" ELSE LoopEnd(o)

\* `while top < doc_height`: where the generator goes next.
RowTest(t, dh, o) == IF t < dh THEN "bottom" ELSE LoopEnd(o)

\* Raise with the exception caught and the failing line run again.
RaiseAndContinue(e) ==
    /\ pc' = pc
    /\ raised' = e

\* An exception leaves the operation: nothing after the raising line runs.
Raise(e) ==
    /\ pc' = "idle"
    /\ raised' = e

\* -------------------------------------------------------------------- Init
\* A fresh session on a loaded page: no override in the document, no
\* operation running.  Document and viewport extents are non-negative.
Init ==
    /\ styles = 0
    /\ docW \in 0..MaxDoc
    /\ docH \in 0..MaxDoc
    /\ vpW \in 0..MaxVp
    /\ vpH \in 0..MaxVp
    /\ pc = "idle"
    /\ op = "none"
    /\ max = 0
    /\ count = 0
    /\ doc_width = 0
    /\ doc_height = 0
    /\ top = 0
    /\ bottom = 0
    /\ left = 0
    /\ right = 0
    /\ exhausted = FALSE
    /\ rects = <<>>
    /\ trace = <<>>
    /\ data = "none"
    /\ canvas = NoCanvas
    /\ funcCalled = FALSE
    /\ blob = <<>>
    /\ written = NoValue
    /\ ret = NoValue
    /\ raised = "none"

\* ------------------------------------------------------------ the operations
\* Entry with __screenshot_png's first line, the hide, left out.
EntryWithoutHide(o) == "doc_width"

\* The first driver call of an operation: __screenshot_png starts with
\* self.__scrollbars_hide(), prepare_page with the generator's measurement.
Entry(o) == IF o = "prepare" THEN "doc_width" ELSE "hide"

\* The caller invokes a public operation: o is get_screenshot_as_png,
\* get_screenshot_as_base64, get_screenshot_as_file or prepare_page(m).
\* The capture operations enter __screenshot_png, prepare_page enters its
\* loop, whose generator first measures the document.  The style counter is
\* kept within MaxStyles.
Call(o, m) ==
    /\ pc = "idle"
    /\ o \in CaptureOps => styles < MaxStyles
    /\ op' = o
    /\ max' = m
    /\ pc' = Entry(o)
    /\ count' = 0
    /\ doc_width' = 0
    /\ doc_height' = 0
    /\ top' = 0
    /\ bottom' = 0
    /\ left' = 0
    /\ right' = 0
    /\ exhausted' = FALSE
    /\ rects' = <<>>
    /\ trace' = <<>>
    /\ data' = "none"
    /\ canvas' = NoCanvas
    /\ funcCalled' = FALSE
    /\ blob' = <<>>
    /\ written' = NoValue
    /\ ret' = NoValue
    /\ raised' = "none"
    /\ UNCHANGED browser

\* __scrollbars_hide: appends one more <style id="chrome_screenshot_fix">.
ScrollbarsHide ==
    /\ pc = "hide"
    /\ \E ok \in BOOLEAN :
        IF ok
        THEN /\ styles' = styles + 1
             /\ trace' = Push(trace, [e |-> "hide", x |-> 0, y |-> 0, d |-> "none"], TraceCap)
             /\ pc' = "doc_width"
             /\ UNCHANGED raised
        ELSE /\ Raise("DriverUnavailable")
             /\ UNCHANGED <<styles, trace>>
    /\ UNCHANGED <<docW, docH, vpW, vpH, op, max, count, tiler, data, output>>

\* __document_width.
DocumentWidth ==
    /\ pc = "doc_width"
    /\ \E ok \in BOOLEAN :
        IF ok
        THEN /\ doc_width' = docW
             /\ pc' = "doc_height"
             /\ UNCHANGED raised
        ELSE /\ Raise("DriverUnavailable")
             /\ UNCHANGED doc_width
    /\ UNCHANGED <<browser, op, max, count, doc_height, top, bottom, left,
                   right, exhausted, rects, trace, data, output>>

\* Image(width=..., height=...) makes a blank canvas, which the image
\* library does only for sides of at least 1.
CanAllocate(w, h) == w >= 1 /\ h >= 1

\* NewCanvas without the magnification.
NewCanvasUnscaled(dw, dh) ==
    [open |-> TRUE, w |-> dw, h |-> dh, tiles |-> <<>>]

\* Image(width=doc_width*2, height=doc_height*2): the blank canvas.
NewCanvas(dw, dh) ==
    [open |-> TRUE, w |-> dw * 2, h |-> dh * 2, tiles |-> <<>>]

\* __document_height, then (in __screenshot_png) the canvas
\* Image(width=doc_width*2, height=doc_height*2), then the generator's
\* `top = 0` and its first `while top < doc_height`.
DocumentHeight ==
    /\ pc = "doc_height"
    /\ \E ok \in BOOLEAN :
        IF ok
        THEN /\ doc_height' = docH
             /\ IF op = "prepare" \/ CanAllocate(doc_width * 2, docH * 2)
                THEN /\ canvas' = IF op = "prepare" THEN NoCanvas
                                  ELSE NewCanvas(doc_width, docH)
                     /\ top' = 0
                     /\ pc' = RowTest(0, docH, op)
                     /\ exhausted' = ~(0 < docH)
                     /\ UNCHANGED raised
                ELSE /\ Raise("ValueError")
                     /\ UNCHANGED <<canvas, top, exhausted>>
        ELSE /\ Raise("DriverUnavailable")
             /\ UNCHANGED <<doc_height, canvas, top, exhausted>>
    /\ UNCHANGED <<browser, op, max, count, doc_width, bottom, left, right,
                   rects, trace, data, funcCalled, blob, written, ret>>

\* Yield with the ceiling test off by one (`count <= max`).
YieldOneScrollMore(r) ==
    /\ rects' = Push(rects, r, RectCap)
    /\ IF op = "prepare" /\ ~(count <= max)
       THEN /\ count' = Min(count + 1, RectCap)
            /\ pc' = "col_step"
       ELSE /\ count' = count
            /\ pc' = "scroll"

\* Yield with __iter_screenshots capturing without scrolling first.
YieldWithoutScroll(r) ==
    /\ rects' = Push(rects, r, RectCap)
    /\ IF op = "prepare" /\ ~(count < max)
       THEN /\ count' = Min(count + 1, RectCap)
            /\ pc' = "col_step"
       ELSE /\ count' = count
            /\ pc' = IF op = "prepare" THEN "scroll" ELSE "capture"

\* `yield (left, top, right, bottom)` hands the rect to the consumer's loop
\* body: __iter_screenshots scrolls to it; prepare_page scrolls to it while
\* count < max and otherwise only counts it.  The counter stops at RectCap.
Yield(r) ==
    /\ rects' = Push(rects, r, RectCap)
    /\ IF op = "prepare" /\ ~(count < max)
       THEN /\ count' = Min(count + 1, RectCap)
            /\ pc' = "col_step"
       ELSE /\ count' = count
            /\ pc' = "scroll"

\* `bottom = top + self.__viewport_height`, `if bottom > doc_height:
\* bottom = doc_height`; when not clamped, `left = 0` and the first
\* `while left < doc_width`.
ReadBottom ==
    /\ pc = "bottom"
    /\ \E ok \in BOOLEAN :
        IF ok
        THEN /\ IF Bottom(top, vpH) > doc_height
                THEN /\ bottom' = doc_height
                     /\ pc' = "top_shift"
                     /\ UNCHANGED left
                ELSE /\ bottom' = Bottom(top, vpH)
                     /\ left' = 0
                     /\ pc' = ColTest(0, doc_width)
             /\ UNCHANGED raised
        ELSE /\ Raise("DriverUnavailable")
             /\ UNCHANGED <<bottom, left>>
    /\ UNCHANGED <<browser, op, max, count, doc_width, doc_height, top, right,
                   exhausted, rects, trace, data, output>>

\* `top = bottom - self.__viewport_height`, then `left = 0` and the first
\* `while left < doc_width`.
TopShift ==
    /\ pc = "top_shift"
    /\ \E ok \in BOOLEAN :
        IF ok
        THEN /\ top' = ShiftedTop(bottom, vpH)
             /\ left' = 0
             /\ pc' = ColTest(0, doc_width)
             /\ UNCHANGED raised
        ELSE /\ Raise("DriverUnavailable")
             /\ UNCHANGED <<top, left>>
    /\ UNCHANGED <<browser, op, max, count, doc_width, doc_height, bottom,
                   right, exhausted, rects, trace, data, output>>

\* `right = left + self.__viewport_width`, `if right > doc_width:
\* right = doc_width`; when not clamped, the yield.
ReadRight ==
    /\ pc = "right"
    /\ \E ok \in BOOLEAN :
        IF ok
        THEN /\ IF RightOf(left, vpW) > doc_width
                THEN /\ right' = doc_width
                     /\ pc' = "left_shift"
                     /\ UNCHANGED <<rects, count>>
                ELSE /\ right' = RightOf(left, vpW)
                     /\ Yield(Rect(left, top, RightOf(left, vpW), bottom))
             /\ UNCHANGED raised
        ELSE /\ Raise("DriverUnavailable")
             /\ UNCHANGED <<right, rects, count>>
    /\ UNCHANGED <<browser, op, max, doc_width, doc_height, top, bottom, left,
                   exhausted, trace, data, output>>

\* `left = right - self.__viewport_width`, then the yield.
LeftShift ==
    /\ pc = "left_shift"
    /\ \E ok \in BOOLEAN :
        IF ok
        THEN /\ left' = ShiftedLeft(right, vpW)
             /\ Yield(Rect(ShiftedLeft(right, vpW), top, right, bottom))
             /\ UNCHANGED raised
        ELSE /\ Raise("DriverUnavailable")
             /\ UNCHANGED <<left, rects, count>>
    /\ UNCHANGED <<browser, op, max, doc_width, doc_height, top, bottom, right,
                   exhausted, trace, data, output>>

\* __scroll_to(rect[LEFT], rect[TOP]); in prepare_page followed by
\* `count += 1`, in __iter_screenshots by sleep(0.2).
ScrollTo ==
    /\ pc = "scroll"
    /\ \E ok \in BOOLEAN :
        IF ok
        THEN /\ trace' = Push(trace, [e |-> "scroll", x |-> left, y |-> top,
                                      d |-> "none"], TraceCap)
             /\ IF op = "prepare"
                THEN /\ count' = Min(count + 1, RectCap)
                     /\ pc' = "col_step"
                ELSE /\ count' = count
                     /\ pc' = "capture"
             /\ UNCHANGED raised
        ELSE /\ Raise("DriverUnavailable")
             /\ UNCHANGED <<trace, count>>
    /\ UNCHANGED <<browser, op, max, tiler, data, output>>

\* super().get_screenshot_as_base64(): the native viewport screenshot.  What
\* comes back decodes to a PNG or does not.
CaptureViewport ==
    /\ pc = "capture"
    /\ \E ok \in BOOLEAN :
        IF ok
        THEN \E d \in {"png", "garbage"} :
             /\ data' = d
             /\ trace' = Push(trace, [e |-> "capture", x |-> left, y |-> top,
                                      d |-> d], TraceCap)
             /\ pc' = "composite"
             /\ UNCHANGED raised
        ELSE /\ Raise("DriverUnavailable")
             /\ UNCHANGED <<trace, data>>
    /\ UNCHANGED <<browser, op, max, count, tiler, output>>

\* screenshot.composite(image=shot, left=..., top=...) replaces the canvas
\* pixels under the tile, a decoded viewport screenshot of tw x th pixels.
\* The tile (its number in compositing order) showing at canvas pixel
\* (px, py) after the first n tiles were composited, 0 if none.
RECURSIVE Painted(_, _, _, _, _, _)
Painted(tiles, n, tw, th, px, py) ==
    IF n = 0 THEN 0
    ELSE IF /\ tiles[n].x <= px /\ px < tiles[n].x + tw
            /\ tiles[n].y <= py /\ py < tiles[n].y + th
         THEN n
         ELSE Painted(tiles, n - 1, tw, th, px, py)

\* Composite placing the tile at the rect's unscaled origin.
CompositeUnscaled ==
    /\ pc = "composite"
    /\ IF data = "png"
       THEN /\ canvas' = [canvas EXCEPT
                          !.tiles = Push(@, [x |-> left, y |-> top], RectCap)]
            /\ pc' = "col_step"
            /\ UNCHANGED raised
       ELSE /\ Raise("TileDecodeError")
            /\ UNCHANGED canvas
    /\ data' = "none"
    /\ UNCHANGED <<browser, op, max, count, tiler, trace, funcCalled, blob,
                   written, ret>>

\* Composite swallowing the decode error and going on to the next rect.
CompositeSkipsBadTile ==
    /\ pc = "composite"
    /\ canvas' = IF data = "png"
                 THEN [canvas EXCEPT
                       !.tiles = Push(@, [x |-> left * 2, y |-> top * 2],
                                      RectCap)]
                 ELSE canvas
    /\ pc' = "col_step"
    /\ data' = "none"
    /\ UNCHANGED <<browser, op, max, count, tiler, trace, funcCalled, blob,
                   written, ret, raised>>

\* Image(blob=base64.b64decode(data), format='png') raises on a tile that
\* does not decode; otherwise screenshot.composite(image=shot,
\* left=rect[LEFT]*2, top=rect[TOP]*2), and `del data`.
Composite ==
    /\ pc = "composite"
    /\ IF data = "png"
       THEN /\ canvas' = [canvas EXCEPT
                          !.tiles = Push(@, [x |-> left * 2, y |-> top * 2],
                                         RectCap)]
            /\ pc' = "col_step"
            /\ UNCHANGED raised
       ELSE /\ Raise("TileDecodeError")
            /\ UNCHANGED canvas
    /\ data' = "none"
    /\ UNCHANGED <<browser, op, max, count, tiler, trace, funcCalled, blob,
                   written, ret>>

\* `left += self.__viewport_width`, then `while left < doc_width`.
ColStep ==
    /\ pc = "col_step"
    /\ \E ok \in BOOLEAN :
        IF ok
        THEN /\ left' = NextLeft(left, vpW)
             /\ pc' = ColTest(NextLeft(left, vpW), doc_width)
             /\ UNCHANGED raised
        ELSE /\ Raise("DriverUnavailable")
             /\ UNCHANGED left
    /\ UNCHANGED <<browser, op, max, count, doc_width, doc_height, top, bottom,
                   right, exhausted, rects, trace, data, output>>

\* `top += self.__viewport_height`, then `while top < doc_height`; when the
\* test fails the generator is exhausted and the consumer's loop ends.
RowStep ==
    /\ pc = "row_step"
    /\ \E ok \in BOOLEAN :
        IF ok
        THEN /\ top' = NextTop(top, vpH)
             /\ pc' = RowTest(NextTop(top, vpH), doc_height, op)
             /\ exhausted' = ~(NextTop(top, vpH) < doc_height)
             /\ UNCHANGED raised
        ELSE /\ Raise("DriverUnavailable")
             /\ UNCHANGED <<top, exhausted>>
    /\ UNCHANGED <<browser, op, max, count, doc_width, doc_height, bottom,
                   left, right, rects, trace, data, output>>

\* _ret = func(screenshot): _bin returns the blob, _base64 returns
\* base64.b64decode of the blob, _save writes the blob to the file and
\* returns True.  The decode and the write can raise.
Func ==
    /\ pc = "func"
    /\ funcCalled' = TRUE
    /\ blob' = MakeBlob(canvas)
    /\ CASE op = "png" ->
              /\ ret' = Bytes(MakeBlob(canvas))
              /\ pc' = "restore"
              /\ UNCHANGED <<written, raised>>
         [] op = "base64" ->
              IF B64DecodeOk(MakeBlob(canvas))
              THEN /\ ret' = Bytes(B64Decode(MakeBlob(canvas)))
                   /\ pc' = "restore"
                   /\ UNCHANGED <<written, raised>>
              ELSE /\ Raise("binascii.Error")
                   /\ UNCHANGED <<written, ret>>
         [] OTHER ->
              \E ok \in BOOLEAN :
                  IF ok
                  THEN /\ written' = Bytes(MakeBlob(canvas))
                       /\ ret' = TrueValue
                       /\ pc' = "restore"
                       /\ UNCHANGED raised
                  ELSE /\ Raise("IOError")
                       /\ UNCHANGED <<written, ret>>
    /\ UNCHANGED <<browser, op, max, count, tiler, trace, data, canvas>>

\* __scrollbars_restore: getElementById finds the first override, or null;
\* document.body.removeChild(null) throws, which the driver raises.  When it
\* succeeds, `return _ret`.
ScrollbarsRestore ==
    /\ pc = "restore"
    /\ \E ok \in BOOLEAN :
        IF ok
        THEN IF styles > 0
             THEN /\ styles' = styles - 1
                  /\ trace' = Push(trace, [e |-> "restore", x |-> 0, y |-> 0, d |-> "none"],
                                   TraceCap)
                  /\ pc' = "idle"
                  /\ UNCHANGED raised
             ELSE /\ Raise("JavascriptException")
                  /\ UNCHANGED <<styles, trace>>
        ELSE /\ Raise("DriverUnavailable")
             /\ UNCHANGED <<styles, trace>>
    /\ UNCHANGED <<docW, docH, vpW, vpH, op, max, count, tiler, data, output>>

\* The page navigates (driver.get, a reload): the new document holds no
\* override.
Navigate ==
    /\ styles' = 0
    /\ UNCHANGED <<docW, docH, vpW, vpH, pc, op, max, count, tiler, trace,
                   data, output, raised>>

\* One step of a running operation.
Step ==
    \/ ScrollbarsHide
    \/ DocumentWidth
    \/ DocumentHeight
    \/ ReadBottom
    \/ TopShift
    \/ ReadRight
    \/ LeftShift
    \/ ScrollTo
    \/ CaptureViewport
    \/ Composite
    \/ ColStep
    \/ RowStep
    \/ Func
    \/ ScrollbarsRestore

Next ==
    \/ \E o \in CaptureOps : Call(o, 0)
    \/ \E m \in 0..MaxScrolls : Call("prepare", m)
    \/ Step
    \/ Navigate

Spec == Init /\ [][Next]_vars

\* The caller is sequential: a running operation always takes its next step.
FairSpec == Spec /\ WF_vars(Step)

\* The page changes size while the tiles of a running operation are being
\* captured (content loads, a script adds or removes elements): from then on
\* the document-size scripts return new values.  One change per operation,
\* of the document as it was measured, by one pixel in one direction.
DocChange ==
    /\ pc \notin {"idle", "hide", "doc_width", "doc_height"}
    /\ docW = doc_width /\ docH = doc_height
    /\ \E d \in {-1, 1} :
          \/ /\ docW + d \in 0..MaxDoc
             /\ docW' = docW + d
             /\ docH' = docH
          \/ /\ docH + d \in 0..MaxDoc
             /\ docH' = docH + d
             /\ docW' = docW
    /\ UNCHANGED <<styles, vpW, vpH, pc, op, max, count, tiler, trace, data,
                   output, raised>>

\* get_screenshot_as_png on a page whose size changes while it runs (the
\* capture operations differ only in func, which runs after the last tile).
NextDoc ==
    \/ Call("png", 0)
    \/ Step
    \/ DocChange

SpecDoc == Init /\ [][NextDoc]_vars

\* The browser window (one with a visible area) is enlarged while a tiling
\* pass is in progress: from then on the viewport scripts return new values.
\* The viewport grows by one pixel in one direction at a time, up to MaxVp.
Resize ==
    /\ pc \notin {"idle", "hide", "doc_width", "doc_height"}
    /\ vpW >= 1 /\ vpH >= 1
    /\ \/ /\ vpW < MaxVp
          /\ vpW' = vpW + 1
          /\ vpH' = vpH
       \/ /\ vpH < MaxVp
          /\ vpH' = vpH + 1
          /\ vpW' = vpW
    /\ UNCHANGED <<styles, docW, docH, pc, op, max, count, tiler, trace, data,
                   output, raised>>

\* get_screenshot_as_png in a window that is enlarged while it runs.
NextResize ==
    \/ Call("png", 0)
    \/ Step
    \/ Resize

SpecResize == Init /\ [][NextResize]_vars

\* What the caller gets back: _ret if the operation returned, nothing if it
\* raised or is still running.
Returned == IF pc = "idle" /\ raised = "none" THEN ret ELSE NoValue

\* ------------------------------------------------------------------ claims
\* A rect covers the point (x, y).
Covers(r, x, y) == r.left <= x /\ x < r.right /\ r.top <= y /\ y < r.bottom

\* The native screenshot returned, in this call, a tile that does not decode.
BadTile ==
    \/ data = "garbage"
    \/ \E i \in 1..Len(trace) : trace[i].e = "capture" /\ trace[i].d = "garbage"

\* C1: whenever a capture operation (png, base64, file) has ended, by
\* returning or by raising, the override it injected has been removed: the
\* document holds no override style.
C1_OverrideRemovedOnEveryExit ==
    (pc = "idle" /\ op \in CaptureOps) => styles = 0

\* C2: over any sequence of calls the document never holds more than one
\* override style element (that it holds none between calls is C1's
\* statement; an override left behind by one call is still there when the
\* next call injects its own).
C2_AtMostOneOverride == styles <= 1

\* C3: restore on a document that holds no override (here: the page
\* navigated during the capture) changes nothing and raises no error.
C3_RestoreIdempotent ==
    [][(pc = "restore" /\ styles = 0 /\ pc' = "idle"
            /\ raised' # "DriverUnavailable")
        => (styles' = 0 /\ raised' = "none")]_vars

\* C4: with a viewport of at least 1 x 1, once the generator is exhausted
\* every point of [0, doc_width) x [0, doc_height) lies in a yielded rect.
C4_RectsCoverDocument ==
    (exhausted /\ vpW >= 1 /\ vpH >= 1) =>
        \A x \in 0..(doc_width - 1), y \in 0..(doc_height - 1) :
            \E i \in 1..Len(rects) : Covers(rects[i], x, y)

\* A pass over a 3 x 3 document with a 2 x 2 viewport has ended: four
\* rects, the last row and the last column shifted back.
C4_Witness ==
    /\ exhausted
    /\ doc_width = 3 /\ doc_height = 3 /\ vpW = 2 /\ vpH = 2
    /\ Len(rects) = 4

\* C5: for a (non-empty) document no larger than the viewport in either
\* dimension, the generator yields exactly the rect (0, 0, doc_width,
\* doc_height).
C5_SmallDocumentYieldsItself ==
    (exhausted /\ doc_width >= 1 /\ doc_height >= 1
        /\ doc_width <= vpW /\ doc_height <= vpH)
    => rects = <<Rect(0, 0, doc_width, doc_height)>>

\* C6: every yielded rect is viewport-sized, except that in a dimension
\* where the document is smaller than the viewport its extent is the
\* document's (stated for viewports of at least 1 x 1).
C6_RectExtent ==
    (vpW >= 1 /\ vpH >= 1) =>
        \A i \in 1..Len(rects) :
            /\ rects[i].right - rects[i].left = Min(vpW, doc_width)
            /\ rects[i].bottom - rects[i].top = Min(vpH, doc_height)

\* C7: every yielded rect lies inside the document and is non-empty:
\* 0 <= left < right <= doc_width and 0 <= top < bottom <= doc_height
\* (stated for viewports of at least 1 x 1).
C7_RectInsideDocument ==
    (vpW >= 1 /\ vpH >= 1) =>
        \A i \in 1..Len(rects) :
            /\ 0 <= rects[i].left /\ rects[i].left < rects[i].right
            /\ rects[i].right <= doc_width
            /\ 0 <= rects[i].top /\ rects[i].top < rects[i].bottom
            /\ rects[i].bottom <= doc_height

\* C8: every operation that was started ends: the tiling loops terminate
\* for every document and viewport size, a viewport extent of 0 included.
C8_OperationsTerminate == (pc # "idle") ~> (pc = "idle")

\* C9: get_screenshot_as_base64's conversion yields the base64 encoding of
\* the PNG bytes of the canvas (the bytes get_screenshot_as_png returns);
\* stated for a canvas holding at least one tile.
C9_Base64OfPngBytes ==
    (op = "base64" /\ funcCalled /\ Len(canvas.tiles) >= 1) =>
        (raised # "binascii.Error" /\ ret = Bytes(B64Encode(blob)))

\* C10: once a tile of the call does not decode, the operation ends in
\* TileDecodeError at that tile, and the conversion is never invoked: no
\* blob is made, no file written, no value held for return.
C10_NoOutputOnDecodeError ==
    BadTile =>
        /\ pc \in {"composite", "idle"}
        /\ pc = "idle" => raised = "TileDecodeError"
        /\ ~funcCalled
        /\ blob = <<>>
        /\ written = NoValue
        /\ ret = NoValue

\* get_screenshot_as_file over six rects ended on its third tile, with two
\* tiles already composited.
C10_Witness ==
    /\ op = "file" /\ pc = "idle" /\ raised = "TileDecodeError"
    /\ doc_width = 3 /\ doc_height = 3 /\ vpW = 2 /\ vpH = 1
    /\ Len(canvas.tiles) = 2

\* The scroll calls to the origins of the first n rects of rs.
ScrollsOf(rs, n) ==
    [i \in 1..n |-> [e |-> "scroll", x |-> rs[i].left, y |-> rs[i].top,
                     d |-> "none"]]

\* C11: prepare_page(max) never captures; when its generator is exhausted
\* after N rects it has returned without raising, has counted all N rects,
\* and the driver served exactly min(max, N) scrolls, to the origins of the
\* first min(max, N) rects in order.
C11_PreparePageScrolls ==
    op = "prepare" =>
        /\ \A i \in 1..Len(trace) : trace[i].e = "scroll"
        /\ Len(trace) <= max
        /\ exhausted =>
            /\ pc = "idle" /\ raised = "none"
            /\ count = Len(rects)
            /\ trace = ScrollsOf(rects, Min(max, Len(rects)))

\* prepare_page(2) has returned from a pass over six rects with two scrolls.
C11_Witness ==
    /\ op = "prepare" /\ exhausted /\ pc = "idle"
    /\ max = 2 /\ Len(rects) = 6 /\ Len(trace) = 2

\* C12: the canvas of a capture is (doc_width * 2) x (doc_height * 2), the
\* document size measured for that capture, and the bytes a successful
\* get_screenshot_as_png returns decode to an image of exactly that size.
C12_CanvasIsTwiceTheDocument ==
    /\ (op \in CaptureOps /\ canvas.open) =>
          (canvas.w = doc_width * 2 /\ canvas.h = doc_height * 2)
    /\ (op = "png" /\ pc = "idle" /\ raised = "none") =>
          /\ doc_width = docW /\ doc_height = docH
          /\ Returned.kind = "bytes"
          /\ PngSize(Returned.bytes) = <<doc_width * 2, doc_height * 2>>

\* get_screenshot_as_png has returned the image of a 3 x 2 document.
C12_Witness ==
    /\ op = "png" /\ pc = "idle" /\ raised = "none"
    /\ doc_width = 3 /\ doc_height = 2
    /\ Returned.kind = "bytes"

\* C13: when the document width or height given to the generator is 0 it
\* yields no rect, whatever the viewport, and the driver is asked for no
\* scroll and no capture.
C13_EmptyDocumentNoRects ==
    (doc_width = 0 \/ doc_height = 0) =>
        /\ rects = <<>>
        /\ \A i \in 1..Len(trace) : trace[i].e \notin {"scroll", "capture"}

\* prepare_page has walked both rows of a document 0 wide and 2 high.
C13_Witness ==
    /\ op = "prepare" /\ exhausted /\ pc = "idle"
    /\ doc_width = 0 /\ doc_height = 2 /\ vpH = 1 /\ top = 2

\* C14: in a capture call the hide is the first driver call served and
\* happens once; the restore happens at most once, is the last call served,
\* and ends the call; a call that returns has both, so every scroll and
\* every capture lies between them.
C14_SuppressSpansTheCapture ==
    op \in CaptureOps =>
        /\ \A i \in 1..Len(trace) : (trace[i].e = "hide") <=> (i = 1)
        /\ \A i \in 1..Len(trace) :
              trace[i].e = "restore" => (i = Len(trace) /\ pc = "idle")
        /\ (pc = "idle" /\ raised = "none") =>
              /\ Len(trace) >= 2
              /\ trace[Len(trace)].e = "restore"

\* get_screenshot_as_file has returned after four tiles: hide, four
\* scroll/capture pairs, restore.
C14_Witness ==
    /\ op = "file" /\ pc = "idle" /\ raised = "none"
    /\ Len(rects) = 4 /\ Len(trace) = 10

\* C15: in a capture call the driver calls after the hide come in pairs,
\* one pair per yielded rect and in the rects' order: the scroll to the
\* rect's origin, then one capture, taken for that rect.  A rect is yielded
\* only after the pair of the rect before it, and when the generator is
\* exhausted there are as many captures as rects.  (Calls for rects beyond
\* RectCap, which the history does not hold, are not compared.)
C15_ScrollThenCapturePerRect ==
    op \in CaptureOps =>
        /\ \A i \in 2..Len(trace) :
              LET j == i \div 2 IN
                \/ trace[i].e = "restore"
                \/ /\ j <= Len(rects)
                   /\ trace[i].e = IF i % 2 = 0 THEN "scroll" ELSE "capture"
                   /\ trace[i].x = rects[j].left
                   /\ trace[i].y = rects[j].top
                \/ j > Len(rects) /\ Len(rects) = RectCap
        /\ (Len(rects) >= 1 /\ Len(rects) < RectCap) =>
              Len(trace) >= 2 * Len(rects) - 1
        /\ pc \in {"func", "restore"} => Len(trace) = 2 * Len(rects) + 1

\* get_screenshot_as_png has returned after six scroll/capture pairs.
C15_Witness ==
    /\ op = "png" /\ pc = "idle" /\ raised = "none"
    /\ Len(rects) = 6 /\ Len(trace) = 14

\* s is an initial part of t.
IsPrefix(s, t) == Len(s) <= Len(t) /\ SubSeq(t, 1, Len(s)) = s

Ceil(a, b) == (a + b - 1) \div b

\* The row-major tiling of a dw x dh document by a vw x vh viewport that
\* fits in it: Ceil(dh, vh) rows of Ceil(dw, vw) rects, each starting at a
\* multiple of the viewport size except the last row and the last column,
\* which end at the document's edge.
RowMajorRects(dw, dh, vw, vh) ==
    LET C == Ceil(dw, vw)
        R == Ceil(dh, vh)
    IN  [k \in 1..(R * C) |->
            LET r == (k - 1) \div C
                c == (k - 1) % C
                t == IF r = R - 1 THEN dh - vh ELSE r * vh
                l == IF c = C - 1 THEN dw - vw ELSE c * vw
            IN  Rect(l, t, l + vw, t + vh)]

\* C16: for a viewport of at least 1 x 1 and a document at least as large,
\* the rects are yielded in the order of the row-major tiling, and an
\* exhausted generator has yielded exactly that tiling.
C16_RowMajorTiling ==
    (vpW >= 1 /\ vpH >= 1 /\ doc_width >= vpW /\ doc_height >= vpH) =>
        /\ IsPrefix(rects, RowMajorRects(doc_width, doc_height, vpW, vpH))
        /\ exhausted =>
              rects = RowMajorRects(doc_width, doc_height, vpW, vpH)

\* A pass over a 3 x 3 document with a 2 x 2 viewport has ended in
\* prepare_page: two rows of two rects, both edges shifted back.
C16_Witness ==
    /\ op = "prepare" /\ exhausted
    /\ doc_width = 3 /\ doc_height = 3 /\ vpW = 2 /\ vpH = 2
    /\ Len(rects) = 4
    /\ rects[4] = Rect(1, 1, 3, 3)

\* Canvas pixel (px, py) lies in the magnified rect r.
CoversPixel(r, px, py) ==
    /\ r.left * 2 <= px /\ px < r.right * 2
    /\ r.top * 2 <= py /\ py < r.bottom * 2

\* C17: tile i is placed at (rects[i].left * 2, rects[i].top * 2), in the
\* rects' order; and once all tiles are composited (viewport at least
\* 1 x 1, tiles of twice the viewport size), every canvas pixel shows the
\* last rect in sequence order that covers it, which among the covering
\* rects is the one furthest down and then furthest right.
C17_LaterTileWins ==
    op \in CaptureOps =>
        /\ Len(canvas.tiles) <= Len(rects)
        /\ \A i \in 1..Len(canvas.tiles) :
              canvas.tiles[i] = [x |-> rects[i].left * 2, y |-> rects[i].top * 2]
        /\ (pc = "func" /\ vpW >= 1 /\ vpH >= 1) =>
              /\ Len(canvas.tiles) = Len(rects)
              /\ \A px \in 0..(canvas.w - 1), py \in 0..(canvas.h - 1) :
                    LET o == Painted(canvas.tiles, Len(canvas.tiles),
                                     2 * vpW, 2 * vpH, px, py)
                    IN  \A j \in 1..Len(rects) :
                          CoversPixel(rects[j], px, py) =>
                            /\ j <= o
                            /\ CoversPixel(rects[o], px, py)
                            /\ rects[j].top <= rects[o].top
                            /\ (rects[j].top = rects[o].top
                                  => rects[j].left <= rects[o].left)

\* All four tiles of a 3 x 3 document (viewport 2 x 2) are composited; the
\* canvas pixel (3, 3), covered by all four, shows the last.
C17_Witness ==
    /\ op \in CaptureOps /\ pc = "func"
    /\ doc_width = 3 /\ doc_height = 3 /\ vpW = 2 /\ vpH = 2
    /\ Len(canvas.tiles) = 4
    /\ Painted(canvas.tiles, 4, 4, 4, 3, 3) = 4
    /\ \A j \in 1..4 : CoversPixel(rects[j], 3, 3)

\* The rects of one row of __iter_rects for a document dw wide and a
\* viewport vw wide, from left edge l on, at most n of them.
RECURSIVE RowRects(_, _, _, _, _, _)
RowRects(dw, vw, t, b, l, n) ==
    IF n = 0 \/ ~(l < dw) THEN <<>>
    ELSE LET r  == IF l + vw > dw THEN dw ELSE l + vw
             l1 == IF l + vw > dw THEN r - vw ELSE l
         IN  <<Rect(l1, t, r, b)>> \o RowRects(dw, vw, t, b, l1 + vw, n - 1)

\* The rects __iter_rects yields for a document dw x dh seen through a
\* viewport that stays vw x vh, from row t on, at most n of them (a pass
\* that never ends is cut at n; a pass that never yields gives none).
RECURSIVE IterRects(_, _, _, _, _, _)
IterRects(dw, dh, vw, vh, t, n) ==
    IF n = 0 \/ ~(t < dh) THEN <<>>
    ELSE LET b   == IF t + vh > dh THEN dh ELSE t + vh
             t1  == IF t + vh > dh THEN b - vh ELSE t
             row == RowRects(dw, vw, t1, b, 0, n)
         IN  IF row = <<>> /\ vh = 0 THEN <<>>
             ELSE row \o IterRects(dw, dh, vw, vh, t1 + vh, n - Len(row))

\* C18: whatever the document does while a capture runs, the rects yielded
\* are those of the size measured at the start (doc_width, doc_height), all
\* of them once the tiler is exhausted, and the canvas is twice that size.
C18_DocumentSizeFrozen ==
    (op \in CaptureOps /\ pc \notin {"idle", "hide", "doc_width", "doc_height"}) =>
        /\ canvas.w = doc_width * 2 /\ canvas.h = doc_height * 2
        /\ IF exhausted
           THEN rects = IterRects(doc_width, doc_height, vpW, vpH, 0, RectCap)
           ELSE IsPrefix(rects,
                         IterRects(doc_width, doc_height, vpW, vpH, 0, RectCap))

\* A capture tiled a 3 x 3 document completely although the document had
\* shrunk to a height of 2 before the tiler was done.
C18_Witness ==
    /\ op \in CaptureOps /\ pc = "func" /\ exhausted
    /\ doc_width = 3 /\ doc_height = 3 /\ vpW = 2 /\ vpH = 2
    /\ docW = 3 /\ docH = 2
    /\ Len(rects) = 4

\* C19: the rects of one pass are those of one viewport size: whatever the
\* window does during the pass, the rects yielded so far are the first rects
\* of the tiling of the measured document for some one viewport size.
C19_OneViewportPerPass ==
    pc \notin {"idle", "hide", "doc_width", "doc_height"} =>
        \E w \in 0..MaxVp, h \in 0..MaxVp :
            IsPrefix(rects, IterRects(doc_width, doc_height, w, h, 0, RectCap))

\* C20: once a driver call of a capture operation has failed during
\* measurement, scroll or capture (that is, before func ran), the operation
\* is over: it is at no further step, so it issues no further driver call
\* and does not retry, the caller gets the error and no value, and no blob
\* was made and no file written.
C20_DriverFailureAborts ==
    (op \in CaptureOps /\ raised = "DriverUnavailable") =>
        /\ pc = "idle"
        /\ Returned = NoValue
        /\ ~funcCalled =>
              /\ ret = NoValue
              /\ written = NoValue
              /\ blob = <<>>

\* A capture failed at a driver call after its first tile was composited.
C20_Witness ==
    /\ op \in CaptureOps /\ raised = "DriverUnavailable" /\ ~funcCalled
    /\ pc = "idle"
    /\ Len(canvas.tiles) >= 1

====
